---- MODULE Spec2Model ----
(***************************************************************************)
(* A model of envier's env.py: the name normalizer, the value coercion of  *)
(* EnvVariable._retrieve, EnvVariable.__call__, DerivedVariable.__call__,  *)
(* Env.__init__, Env.include and Env.help_info.                            *)
(*                                                                         *)
(* Python strings are sequences of one-character strings, None/absent is   *)
(* the empty sequence and Some(x) is <<x>>.  Python values are records     *)
(* tagged with their runtime type in the field t.                          *)
(***************************************************************************)
EXTENDS Integers, Sequences, FiniteSets, TLC

VARIABLES
    classes,    \* the schema types: class name -> its class-level attributes
    source,     \* the source mapping handed to the operation (key -> raw)
    op,         \* the last operation and its arguments
    out         \* what the last operation returned, raised and logged

vars == <<classes, source, op, out>>

(***************************************************************************)
(* Bounds of the model.                                                    *)
(***************************************************************************)
MaxItems == 2        \* items joined into a raw collection / mapping string
MaxDeprecations == 2 \* aliases in a deprecation list
MaxMembers == 3      \* members declared by the root schema

None == <<>>
Some(x) == <<x>>

(***************************************************************************)
(* Strings.                                                                *)
(***************************************************************************)
LOWERCASE ==
    <<"a","b","c","d","e","f","g","h","i","j","k","l","m",
      "n","o","p","q","r","s","t","u","v","w","x","y","z">>
UPPERCASE ==
    <<"A","B","C","D","E","F","G","H","I","J","K","L","M",
      "N","O","P","Q","R","S","T","U","V","W","X","Y","Z">>
DIGITS == <<"0","1","2","3","4","5","6","7","8","9">>

IndexOf(c, alphabet) ==
    IF \E i \in DOMAIN alphabet : alphabet[i] = c
    THEN CHOOSE i \in DOMAIN alphabet : alphabet[i] = c
    ELSE 0

\* str.upper() and str.lower()
upper(s) ==
    [i \in 1..Len(s) |->
        IF IndexOf(s[i], LOWERCASE) > 0 THEN UPPERCASE[IndexOf(s[i], LOWERCASE)] ELSE s[i]]
lower(s) ==
    [i \in 1..Len(s) |->
        IF IndexOf(s[i], UPPERCASE) > 0 THEN LOWERCASE[IndexOf(s[i], UPPERCASE)] ELSE s[i]]

\* str.replace(old, new) for one-character old and new
replace(s, old, new) == [i \in 1..Len(s) |-> IF s[i] = old THEN new ELSE s[i]]

\* str.rstrip(c): every trailing c is removed
rstrip(s, c) ==
    LET keep == {i \in 1..Len(s) : s[i] # c}
        last == IF keep = {} THEN 0 ELSE CHOOSE i \in keep : \A j \in keep : j <= i
    IN  SubSeq(s, 1, last)

\* str.endswith(c) for a one-character c
endswith(s, c) == Len(s) > 0 /\ s[Len(s)] = c

\* str.find(sep): the first index at which sep occurs in s, 0 when it does not
find(s, sep) ==
    LET hits == {i \in 1..(Len(s) - Len(sep) + 1) : SubSeq(s, i, i + Len(sep) - 1) = sep}
    IN  IF hits = {} THEN 0 ELSE CHOOSE i \in hits : \A j \in hits : i <= j

\* str.split(sep, maxsplit) for a non-empty sep; maxsplit = -1 is "no limit"
RECURSIVE split(_, _, _)
split(s, sep, maxsplit) ==
    LET i == find(s, sep)
    IN  IF maxsplit = 0 \/ i = 0
        THEN <<s>>
        ELSE <<SubSeq(s, 1, i - 1)>>
                \o split(SubSeq(s, i + Len(sep), Len(s)), sep, maxsplit - 1)

\* sep.join(parts)
RECURSIVE join(_, _)
join(sep, parts) ==
    IF parts = <<>> THEN <<>>
    ELSE IF Len(parts) = 1 THEN parts[1]
    ELSE parts[1] \o sep \o join(sep, Tail(parts))

_normalized(name) == rstrip(replace(upper(name), ".", "_"), "_")

(***************************************************************************)
(* Values and types.                                                       *)
(***************************************************************************)
StrV(s) == [t |-> "str", s |-> s]
IntV(n) == [t |-> "int", n |-> n]
BoolV(b) == [t |-> "bool", b |-> b]
FloatV(num, exp) == [t |-> "float", num |-> num, exp |-> exp]   \* num / 10^exp
NoneV == [t |-> "NoneType"]
SeqV(kind, items) == [t |-> kind, items |-> items]              \* list, tuple
SetV(elems) == [t |-> "set", elems |-> elems]
DictV(pairs) == [t |-> "dict", pairs |-> pairs]                 \* insertion order
DescriptorV == [t |-> "descriptor"]

\* a plain class, or typing.Union[args]
Plain(name) == [origin |-> "", name |-> name, args |-> <<>>]
UnionOf(args) == [origin |-> "Union", name |-> "Union", args |-> args]

\* isinstance(value, cls) for a class name (bool is a subclass of int)
isinstance(value, cls) ==
    \/ cls = "object"
    \/ value.t = cls
    \/ (value.t = "bool" /\ cls = "int")

_check_type(value, type) ==
    IF type.origin # ""
    THEN \E i \in DOMAIN type.args : isinstance(value, type.args[i])
    ELSE isinstance(value, type.name)

Ok(v) == [status |-> "ok", value |-> v]
Raise(e) == [status |-> e, value |-> NoneV]

(***************************************************************************)
(* The constructors of the builtin classes applied to a string.  Literals  *)
(* are an optional sign and decimal digits (int), with at most one point   *)
(* (float); whitespace, underscores, exponents, inf and nan are outside    *)
(* the alphabet of the raw strings drawn below.                            *)
(***************************************************************************)
IsDigits(s) == Len(s) > 0 /\ \A i \in 1..Len(s) : IndexOf(s[i], DIGITS) > 0
Unsigned(s) == IF Len(s) > 0 /\ s[1] \in {"-", "+"} THEN Tail(s) ELSE s
Sign(s) == IF Len(s) > 0 /\ s[1] = "-" THEN -1 ELSE 1

RECURSIVE DigitsValue(_)
DigitsValue(s) ==
    IF s = <<>> THEN 0
    ELSE 10 * DigitsValue(SubSeq(s, 1, Len(s) - 1)) + (IndexOf(s[Len(s)], DIGITS) - 1)

RECURSIVE NormFloat(_, _)
NormFloat(num, exp) ==
    IF exp > 0 /\ num % 10 = 0 THEN NormFloat(num \div 10, exp - 1) ELSE FloatV(num, exp)

int(raw) ==
    IF IsDigits(Unsigned(raw))
    THEN Ok(IntV(Sign(raw) * DigitsValue(Unsigned(raw))))
    ELSE Raise("ValueError")

float(raw) ==
    LET u == Unsigned(raw)
        p == find(u, <<".">>)
        whole == IF p = 0 THEN u ELSE SubSeq(u, 1, p - 1)
        frac == IF p = 0 THEN <<>> ELSE SubSeq(u, p + 1, Len(u))
    IN  IF /\ Len(whole) + Len(frac) > 0
           /\ (whole = <<>> \/ IsDigits(whole))
           /\ (frac = <<>> \/ IsDigits(frac))
        THEN Ok(NormFloat(Sign(raw) * DigitsValue(whole \o frac), Len(frac)))
        ELSE Raise("ValueError")

Chars(raw) == [i \in 1..Len(raw) |-> StrV(<<raw[i]>>)]

\* t(raw) for a class name t
CallType(t, raw) ==
    CASE t = "str" -> Ok(StrV(raw))
      [] t = "int" -> int(raw)
      [] t = "float" -> float(raw)
      [] t = "bool" -> Ok(BoolV(Len(raw) > 0))
      [] t \in {"list", "tuple"} -> Ok(SeqV(t, Chars(raw)))
      [] t = "set" -> Ok(SetV({Chars(raw)[i] : i \in 1..Len(raw)}))
      [] t = "dict" -> IF raw = <<>> THEN Ok(DictV(<<>>)) ELSE Raise("ValueError")
      [] OTHER -> Raise("TypeError")     \* NoneType(raw), Union[...](raw)

(***************************************************************************)
(* User-supplied callables: parsers, validators and maps are drawn from    *)
(* these small sets of functions.                                          *)
(***************************************************************************)
\* parser(raw): "int" is int, "len" is len, "upper" is str.upper
ApplyParser(parser, raw) ==
    CASE parser = "int" -> int(raw)
      [] parser = "len" -> Ok(IntV(Len(raw)))
      [] OTHER -> Ok(StrV(upper(raw)))

\* map(item) of a list, tuple or set variable: "int" is int, "upper" is
\* str.upper; a two-argument map called with one argument is a TypeError
MapItem(map, item) ==
    CASE map = "int" -> int(item)
      [] map = "upper" -> Ok(StrV(upper(item)))
      [] OTHER -> Raise("TypeError")

\* map(key, value) of a dict variable, returning the new pair:
\*   "swap" is lambda k, v: (v, k); "lower_key" is lambda k, v: (k.lower(), v);
\*   "int_value" is lambda k, v: (k, int(v));
\* a one-argument map called with two arguments is a TypeError
MapPair(map, pair) ==
    CASE map = "swap" -> Ok(<<pair[2], pair[1]>>)
      [] map = "lower_key" -> Ok(<<StrV(lower(pair[1].s)), pair[2]>>)
      [] map = "int_value" ->
            IF int(pair[2].s).status = "ok"
            THEN Ok(<<pair[1], int(pair[2].s).value>>)
            ELSE Raise("ValueError")
      [] OTHER -> Raise("TypeError")

\* validator(value) returns normally: "accept" always, "reject" never,
\* "reject_int" unless the value is an int
Accepts(validator, value) ==
    CASE validator = "accept" -> TRUE
      [] validator = "reject" -> FALSE
      [] OTHER -> ~isinstance(value, "int")

(***************************************************************************)
(* EnvVariable                                                             *)
(***************************************************************************)
NoDefault == None

\* EnvVariable.__init__: the descriptor, or none when the default does not
\* fit the type (TypeError at declaration time); help, help_type and
\* help_default keep their default None
EnvVariable(type, name, parser, validator, map, default, deprecations) ==
    LET bad == IF type.origin = "Union"
               THEN \/ default = NoDefault
                    \/ ~\E i \in DOMAIN type.args : isinstance(default[1], type.args[i])
               ELSE default # NoDefault /\ ~isinstance(default[1], type.name)
    IN  IF bad THEN None
        ELSE Some([type |-> type, name |-> name, parser |-> parser,
                   validator |-> validator, map |-> map, default |-> default,
                   deprecations |-> deprecations,
                   help |-> None, help_type |-> None, help_default |-> None])

\* source.get(key)
Get(src, key) == IF key \in DOMAIN src THEN Some(src[key]) ELSE None

\* the DeprecationWarning that _retrieve emits
Warning(full_deprecated_name, dep, full_name) ==
    [category |-> "DeprecationWarning",
     deprecated |-> full_deprecated_name,
     deprecated_when |-> dep.deprecated_when,
     removed_when |-> dep.removed_when,
     use |-> full_name]

\* the loop without its break: every alias is looked up, the last one decides
RECURSIVE ScanDeprecationsNoBreak(_, _, _, _)
ScanDeprecationsNoBreak(src, prefix, full_name, deprecations) ==
    IF deprecations = <<>>
    THEN [raw |-> None, lookups |-> <<>>, warnings |-> <<>>]
    ELSE LET dep == Head(deprecations)
             full_deprecated_name == prefix \o _normalized(dep.name)
             raw == Get(src, full_deprecated_name)
             rest == ScanDeprecationsNoBreak(src, prefix, full_name, Tail(deprecations))
         IN  [raw |-> IF Tail(deprecations) = <<>> THEN raw ELSE rest.raw,
              lookups |-> <<full_deprecated_name>> \o rest.lookups,
              warnings |-> (IF raw # None
                            THEN <<Warning(full_deprecated_name, dep, full_name)>>
                            ELSE <<>>) \o rest.warnings]

\* the loop over self.deprecations: the raw value found, the keys looked up
\* and the warnings emitted
RECURSIVE ScanDeprecations(_, _, _, _)
ScanDeprecations(src, prefix, full_name, deprecations) ==
    IF deprecations = <<>>
    THEN [raw |-> None, lookups |-> <<>>, warnings |-> <<>>]
    ELSE LET dep == Head(deprecations)
             full_deprecated_name == prefix \o _normalized(dep.name)
             raw == Get(src, full_deprecated_name)
         IN  IF raw # None
             THEN [raw |-> raw, lookups |-> <<full_deprecated_name>>,
                   warnings |-> <<Warning(full_deprecated_name, dep, full_name)>>]
             ELSE LET rest == ScanDeprecations(src, prefix, full_name, Tail(deprecations))
                  IN  [rest EXCEPT !.lookups = <<full_deprecated_name>> \o @]

\* lines 86-113: the lookup of the own key, then of the deprecated aliases
FindRaw(src, prefix, var) ==
    LET full_name == prefix \o _normalized(var.name)
        raw == Get(src, full_name)
    IN  IF raw = None /\ var.deprecations # <<>>
        THEN LET scan == ScanDeprecations(src, prefix, full_name, var.deprecations)
             IN  [scan EXCEPT !.lookups = <<full_name>> \o @]
        ELSE [raw |-> raw, lookups |-> <<full_name>>, warnings |-> <<>>]

\* type(collection) / type(map(self.map, collection)) for list, tuple, set
RECURSIVE MapItems(_, _)
MapItems(map, items) ==
    IF items = <<>> THEN Ok(<<>>)
    ELSE LET h == IF map = "none" THEN Ok(StrV(Head(items))) ELSE MapItem(map, Head(items))
         IN  IF h.status # "ok" THEN h
             ELSE LET rest == MapItems(map, Tail(items))
                  IN  IF rest.status # "ok" THEN rest ELSE Ok(<<h.value>> \o rest.value)

CoerceCollection(type, map, raw, env) ==
    LET collection == split(raw, env.item_separator, -1)
        mapped == MapItems(map, collection)
    IN  IF mapped.status # "ok" THEN Raise(mapped.status)
        ELSE IF type.name = "set"
        THEN Ok(SetV({mapped.value[i] : i \in DOMAIN mapped.value}))
        ELSE Ok(SeqV(type.name, mapped.value))

\* dict(pairs): a later pair with a key already present replaces its value
\* and keeps the key's position
RECURSIVE BuildDict(_, _)
BuildDict(d, pairs) ==
    IF pairs = <<>> THEN d
    ELSE LET p == Head(pairs)
             at == {i \in DOMAIN d : d[i][1] = p[1]}
         IN  BuildDict(IF at = {} THEN Append(d, p)
                       ELSE [i \in DOMAIN d |-> IF i \in at THEN p ELSE d[i]],
                       Tail(pairs))

RECURSIVE MapPairs(_, _)
MapPairs(map, pairs) ==
    IF pairs = <<>> THEN Ok(<<>>)
    ELSE LET h == MapPair(map, Head(pairs))
         IN  IF h.status # "ok" THEN h
             ELSE LET rest == MapPairs(map, Tail(pairs))
                  IN  IF rest.status # "ok" THEN rest ELSE Ok(<<h.value>> \o rest.value)

\* lines 137-140: the (key, value) lists of the items of raw
SplitItems(raw, env) ==
    LET items == split(raw, env.item_separator, -1)
    IN  [i \in DOMAIN items |-> split(items[i], env.value_separator, 1)]

\* the map applied to every pair of the raw string, before the dict is built
CoerceDictMapEveryPair(map, raw, env) ==
    LET kvs == SplitItems(raw, env)
    IN  IF \E i \in DOMAIN kvs : Len(kvs[i]) # 2 THEN Raise("ValueError")
        ELSE LET pairs == [i \in DOMAIN kvs |-> <<StrV(kvs[i][1]), StrV(kvs[i][2])>>]
                 mapped == IF map = "none" THEN Ok(pairs) ELSE MapPairs(map, pairs)
             IN  IF mapped.status # "ok" THEN Raise(mapped.status)
                 ELSE Ok(DictV(BuildDict(<<>>, mapped.value)))

\* lines 136-143
CoerceDict(map, raw, env) ==
    LET kvs == SplitItems(raw, env)
    IN  IF \E i \in DOMAIN kvs : Len(kvs[i]) # 2 THEN Raise("ValueError")
        ELSE LET d == BuildDict(<<>>, [i \in DOMAIN kvs |-> <<StrV(kvs[i][1]), StrV(kvs[i][2])>>])
             IN  IF map = "none" THEN Ok(DictV(d))
                 ELSE LET mapped == MapPairs(map, d)
                      IN  IF mapped.status # "ok" THEN Raise(mapped.status)
                          ELSE Ok(DictV(BuildDict(<<>>, mapped.value)))

\* lines 148-153: the first alternative whose constructor does not raise a
\* TypeError decides; any other exception propagates; "fallthrough" when
\* every alternative raised TypeError
RECURSIVE TryAlternatives(_, _)
TryAlternatives(args, raw) ==
    IF args = <<>> THEN Raise("fallthrough")
    ELSE LET r == CallType(Head(args), raw)
         IN  IF r.status = "TypeError" THEN TryAlternatives(Tail(args), raw) ELSE r

\* the alternatives of a union tried before the isinstance check of the raw string
CoerceScalarUnionFirst(type, raw) ==
    LET u == IF type.origin = "Union" THEN TryAlternatives(type.args, raw)
             ELSE Raise("fallthrough")
    IN  IF u.status # "fallthrough" THEN u
        ELSE IF _check_type(StrV(raw), type) THEN Ok(StrV(raw))
        ELSE CallType(type.name, raw)

\* lines 145-155
CoerceScalar(type, raw) ==
    IF _check_type(StrV(raw), type) THEN Ok(StrV(raw))
    ELSE LET u == IF type.origin = "Union" THEN TryAlternatives(type.args, raw)
                  ELSE Raise("fallthrough")
         IN  IF u.status # "fallthrough" THEN u ELSE CallType(type.name, raw)

\* lines 121-129
CoerceWithParser(var, raw) ==
    LET parsed == ApplyParser(var.parser, raw)
    IN  IF parsed.status # "ok" THEN parsed
        ELSE IF ~_check_type(parsed.value, var.type) THEN Raise("TypeError")
        ELSE parsed

\* lines 121-155: the value of a raw string that is present
Coerce(var, raw, env) ==
    IF var.parser # "none" THEN CoerceWithParser(var, raw)
    ELSE IF var.type = Plain("bool") THEN Ok(BoolV(lower(raw) \in env.truthy))
    ELSE IF var.type \in {Plain("list"), Plain("tuple"), Plain("set")}
    THEN CoerceCollection(var.type, var.map, raw, env)
    ELSE IF var.type = Plain("dict") THEN CoerceDict(var.map, raw, env)
    ELSE CoerceScalar(var.type, raw)

\* lines 115-119: the raw value is absent
Absent(var, full_name) ==
    IF var.default # NoDefault THEN Ok(var.default[1]) ELSE Raise("KeyError")

\* the default substituted for a raw value that fails coercion
_retrieveDefaultOnError(var, env, prefix) ==
    LET full_name == prefix \o _normalized(var.name)
        found == FindRaw(env.source, prefix, var)
        c == IF found.raw = None THEN Raise("KeyError") ELSE Coerce(var, found.raw[1], env)
        r == IF c.status # "ok" THEN Absent(var, full_name) ELSE c
    IN  [status |-> r.status, value |-> r.value,
         key |-> full_name, raw |-> found.raw,
         lookups |-> found.lookups, warnings |-> found.warnings,
         source |-> env.source]

\* EnvVariable._retrieve(env, prefix)
_retrieve(var, env, prefix) ==
    LET full_name == prefix \o _normalized(var.name)
        Return(found, r) ==
            [status |-> r.status, value |-> r.value,
             key |-> full_name, raw |-> found.raw,
             lookups |-> found.lookups, warnings |-> found.warnings,
             source |-> env.source]
        Value(found) ==
            Return(found, IF found.raw = None THEN Absent(var, full_name)
                          ELSE Coerce(var, found.raw[1], env))
    IN  Value(FindRaw(env.source, prefix, var))

\* lines 161-162: the values the validator was called with, and whether it raised
RunValidator(var, value) ==
    IF var.validator = "none" THEN [calls |-> <<>>, raised |-> FALSE]
    ELSE [calls |-> <<value>>, raised |-> ~Accepts(var.validator, value)]

\* the validator skipped for a value that is the default
__call__SkipDefault(var, env, prefix) ==
    LET r == _retrieve(var, env, prefix)
        v == IF r.status = "ok" /\ r.raw # None THEN RunValidator(var, r.value)
             ELSE [calls |-> <<>>, raised |-> FALSE]
    IN  [status |-> IF v.raised THEN "ValidatorError" ELSE r.status,
         value |-> IF v.raised THEN NoneV ELSE r.value,
         retrieved |-> r,
         validated |-> v.calls]

\* EnvVariable.__call__(env, prefix)
__call__(var, env, prefix) ==
    LET Return(r, v) ==
            [status |-> IF v.raised THEN "ValidatorError" ELSE r.status,
             value |-> IF v.raised THEN NoneV ELSE r.value,
             retrieved |-> r,
             validated |-> v.calls]
        Validate(r) ==
            Return(r, IF r.status = "ok" THEN RunValidator(var, r.value)
                      ELSE [calls |-> <<>>, raised |-> FALSE])
    IN  Validate(_retrieve(var, env, prefix))

(***************************************************************************)
(* Schema types.  A class holds the class-level knobs of Env (lines        *)
(* 215-219) and its own __dict__ as an ordered list of attributes.         *)
(***************************************************************************)
TRUTHY == {<<"1">>, <<"t","r","u","e">>, <<"y","e","s">>, <<"o","n">>}

EnvClass(prefix, item, members) ==
    [__prefix__ |-> prefix, __item__ |-> item, __truthy__ |-> TRUTHY,
     __item_separator__ |-> <<",">>, __value_separator__ |-> <<":">>,
     members |-> members]

\* what _retrieve reads of the Env instance it is given
EnvOf(cls, src) ==
    [source |-> src, truthy |-> cls.__truthy__,
     item_separator |-> cls.__item_separator__,
     value_separator |-> cls.__value_separator__]

(***************************************************************************)
(* Class and instance attributes.  A class __dict__ and an instance        *)
(* __dict__ are ordered lists of named entries: setattr replaces the entry *)
(* of a name in place or appends a new one, delattr removes it.  The order *)
(* is the insertion order of a Python dict (3.7 and later), so the members *)
(* of a class are listed in the order of their declaration.                *)
(***************************************************************************)
VarMember(name, var) == [name |-> name, kind |-> "var", var |-> var]
DerMember(name, der) == [name |-> name, kind |-> "der", der |-> der]
EnvMember(name, cls) == [name |-> name, kind |-> "env", cls |-> cls]
OtherMember(name) == [name |-> name, kind |-> "other"]

Names(entries) == {entries[i].name : i \in DOMAIN entries}

setattr(entries, entry) ==
    IF entry.name \in Names(entries)
    THEN [i \in DOMAIN entries |-> IF entries[i].name = entry.name THEN entry ELSE entries[i]]
    ELSE Append(entries, entry)

delattr(entries, name) == SelectSeq(entries, LAMBDA e : e.name # name)

\* the entry of a name that is present
Entry(entries, name) == entries[CHOOSE i \in DOMAIN entries : entries[i].name = name]

\* os.environ, which Env.__init__ falls back to when the source is None or empty
os_environ == (<<"H","O","M","E">> :> <<"/">>)

(***************************************************************************)
(* DerivedVariable                                                         *)
(***************************************************************************)
DerivedVariable(type, derivation) == [type |-> type, derivation |-> derivation]

\* getattr(env, name): the instance attribute, else the class attribute
getattr(self, cls, name) ==
    IF name \in Names(self.attrs) THEN Ok(Entry(self.attrs, name).value)
    ELSE IF name \in Names(cls.members) THEN Ok(DescriptorV)
    ELSE Raise("AttributeError")

\* derivation(env): "const" is lambda env: 1, "getattr" is lambda env: env.<attr>
Derive(derivation, self, cls) ==
    IF derivation.fn = "const" THEN Ok(IntV(1)) ELSE getattr(self, cls, derivation.attr)

\* DerivedVariable.__call__(env)
DerivedVariable__call__(der, self, cls) ==
    LET value == Derive(der.derivation, self, cls)
    IN  IF value.status # "ok" THEN value
        ELSE IF ~_check_type(value.value, der.type) THEN Raise("TypeError")
        ELSE value

(***************************************************************************)
(* Env.__init__                                                            *)
(*                                                                         *)
(* The construction threads a record st through the members:               *)
(*   classes  the class table (the renaming of a nested class writes it),  *)
(*   self     the instance under construction,                             *)
(*   derived  the derived members collected by the first pass,             *)
(*   log      what happened, in order,                                     *)
(*   status   "ok" or the exception that aborted the construction.         *)
(* An instance is named in the log by its path of attribute names from the *)
(* root.                                                                   *)
(***************************************************************************)
\* the separator added to the empty prefix too
FullPrefixAlwaysSeparated(cls, parent) ==
    LET joined == (IF parent # None THEN parent[1]._full_prefix ELSE <<>>)
                    \o _normalized(cls.__prefix__)
    IN  IF ~endswith(joined, "_") THEN joined \o <<"_">> ELSE joined

\* lines 226-232
FullPrefix(cls, parent) ==
    LET joined == (IF parent # None THEN parent[1]._full_prefix ELSE <<>>)
                    \o _normalized(cls.__prefix__)
    IN  IF joined # <<>> /\ ~endswith(joined, "_") THEN joined \o <<"_">> ELSE joined

SetEvent(path, name, kind) == [ev |-> "setattr", obj |-> path, name |-> name, kind |-> kind]

\* lines 237-238
VisitVariable(st, e, path) ==
    LET Called(r) == [ev |-> "__call__", obj |-> path, name |-> e.name, var |-> e.var,
                      result |-> r]
        Assign(r) ==
            IF r.status # "ok"
            THEN [st EXCEPT !.status = r.status, !.log = @ \o <<Called(r)>>]
            ELSE [st EXCEPT !.self.attrs = setattr(@, [name |-> e.name, value |-> r.value]),
                            !.log = @ \o <<Called(r), SetEvent(path, e.name, "var")>>]
    IN  Assign(__call__(e.var, EnvOf(st.classes[st.self.cls], st.self.source),
                        st.self._full_prefix))

\* a derived member resolved where it is met in the first pass
VisitDerivedEagerly(st, e, path) ==
    LET r == DerivedVariable__call__(e.der, st.self, st.classes[st.self.cls])
        called == [ev |-> "derive", obj |-> path, name |-> e.name,
                   seen |-> Names(st.self.attrs), result |-> r]
    IN  IF r.status # "ok"
        THEN [st EXCEPT !.status = r.status, !.log = @ \o <<called>>]
        ELSE [st EXCEPT !.self.attrs = setattr(@, [name |-> e.name, value |-> r.value]),
                        !.log = @ \o <<called, SetEvent(path, e.name, "der")>>]

\* lines 246-247
VisitDerived(st, e, path) == [st EXCEPT !.derived = Append(@, e)]

\* lines 249-250
RECURSIVE SecondPass(_, _, _)
SecondPass(st, derived, path) ==
    IF derived = <<>> \/ st.status # "ok" THEN st
    ELSE LET d == Head(derived)
             Called(r) == [ev |-> "derive", obj |-> path, name |-> d.name,
                           seen |-> Names(st.self.attrs), result |-> r]
             Assign(r) ==
                IF r.status # "ok"
                THEN [st EXCEPT !.status = r.status, !.log = @ \o <<Called(r)>>]
                ELSE [st EXCEPT !.self.attrs = setattr(@, [name |-> d.name, value |-> r.value]),
                                !.log = @ \o <<Called(r), SetEvent(path, d.name, "der")>>]
         IN  SecondPass(
                Assign(DerivedVariable__call__(d.der, st.self, st.classes[st.self.cls])),
                Tail(derived), path)

RECURSIVE __init__(_, _, _, _, _)
RECURSIVE FirstPass(_, _, _, _)

\* the nested class exposed under its __item__ name on the instance only
VisitNestedInstanceOnly(st, e, src, path) ==
    LET item == st.classes[e.cls].__item__
        move == item # None /\ item[1] # e.name
        name == IF move THEN item[1] ELSE e.name
        child == __init__(st.classes, e.cls, src, Some(st.self), Append(path, name))
    IN  IF child.status # "ok"
        THEN [st EXCEPT !.classes = child.classes, !.status = child.status,
                        !.log = @ \o child.log]
        ELSE [st EXCEPT !.classes = child.classes,
                        !.self.attrs = setattr(@, [name |-> name, value |-> child.self]),
                        !.log = @ \o child.log \o <<SetEvent(path, name, "env")>>]

\* lines 239-245: the class is moved to its __item__ name on the containing
\* class, and the child is constructed with the same source
VisitNested(st, e, src, path) ==
    LET item == st.classes[e.cls].__item__
        move == item # None /\ item[1] # e.name
        name == IF move THEN item[1] ELSE e.name
        spec == IF move
                THEN [st.classes EXCEPT ![st.self.cls].members =
                        delattr(setattr(@, EnvMember(name, e.cls)), e.name)]
                ELSE st.classes
        Assign(child) ==
            IF child.status # "ok"
            THEN [st EXCEPT !.classes = child.classes, !.status = child.status,
                            !.log = @ \o child.log]
            ELSE [st EXCEPT !.classes = child.classes,
                            !.self.attrs = setattr(@, [name |-> name, value |-> child.self]),
                            !.log = @ \o child.log \o <<SetEvent(path, name, "env")>>]
    IN  Assign(__init__(spec, e.cls, src, Some(st.self), Append(path, name)))

\* one member of the first pass (lines 237-247)
Visit(st, e, src, path) ==
    CASE e.kind = "var" -> VisitVariable(st, e, path)
      [] e.kind = "env" -> VisitNested(st, e, src, path)
      [] e.kind = "der" -> VisitDerived(st, e, path)
      [] OTHER -> st

\* lines 236-247, over the snapshot list(self.__class__.__dict__.items())
FirstPass(st, items, src, path) ==
    IF items = <<>> \/ st.status # "ok" THEN st
    ELSE FirstPass(Visit(st, Head(items), src, path), Tail(items), src, path)

\* Env.__init__(source, parent) of class cname; path names the new instance
__init__(table, cname, src, parent, path) ==
    LET cls == table[cname]
        self == [t |-> "Env", cls |-> cname,
                 source |-> IF src = <<>> THEN os_environ ELSE src,
                 _full_prefix |-> FullPrefix(cls, parent),
                 attrs |-> <<>>]
        begun == [ev |-> "__init__", obj |-> path, cls |-> cname,
                  parent |-> IF parent = None THEN None ELSE Some(parent[1]._full_prefix),
                  _full_prefix |-> self._full_prefix, items |-> cls.members]
        st0 == [classes |-> table, self |-> self, derived |-> <<>>,
                log |-> <<begun>>, status |-> "ok"]
        Derived(st1) == SecondPass(st1, st1.derived, path)
    IN  Derived(FirstPass(st0, cls.members, src, path))

(***************************************************************************)
(* Env.include                                                             *)
(***************************************************************************)
\* the attributes every Env subclass inherits from Env and object, by which
\* hasattr(cls, namespace) holds for more than the names of cls.__dict__
InheritedAttributes ==
    {"var", "v", "der", "d", "keys", "values", "include", "help_info",
     "__truthy__", "__prefix__", "__item__", "__item_separator__", "__value_separator__"}

hasattr(cls, name) == name \in Names(cls.members) \cup InheritedAttributes

\* cls.values(): the variables, derived variables and nested classes of the
\* class __dict__, in its order
values(cls) == SelectSeq(cls.members, LAMBDA e : e.kind \in {"var", "der", "env"})

\* lines 361-367
ToInclude(env_spec) == SelectSeq(env_spec.members, LAMBDA e : e.kind \in {"var", "der", "env"})

\* lines 374-375
RECURSIVE SetAll(_, _)
SetAll(members, entries) ==
    IF entries = <<>> THEN members ELSE SetAll(setattr(members, Head(entries)), Tail(entries))

\* the non-colliding members merged before the clash is reported
includeThenCheck(table, cname, spec_name, namespace, overwrite) ==
    LET cls == table[cname]
        to_include == ToInclude(table[spec_name])
        overlap == Names(cls.members) \cap Names(to_include)
        fresh == SelectSeq(to_include, LAMBDA e : e.name \notin overlap)
    IN  IF namespace # None
        THEN IF ~overwrite /\ hasattr(cls, namespace[1])
             THEN [status |-> "ValueError", names |-> {namespace[1]}, classes |-> table]
             ELSE [status |-> "ok", names |-> {},
                   classes |-> [table EXCEPT ![cname].members =
                                    setattr(@, EnvMember(namespace[1], spec_name))]]
        ELSE IF ~overwrite /\ overlap # {}
        THEN [status |-> "ValueError", names |-> overlap,
              classes |-> [table EXCEPT ![cname].members = SetAll(@, fresh)]]
        ELSE [status |-> "ok", names |-> {},
              classes |-> [table EXCEPT ![cname].members = SetAll(@, to_include)]]

\* cls.include(env_spec, namespace, overwrite): the outcome, the names the
\* ValueError reports, and the class table afterwards
include(table, cname, spec_name, namespace, overwrite) ==
    LET cls == table[cname]
        to_include == ToInclude(table[spec_name])
        overlap == Names(cls.members) \cap Names(to_include)
    IN  IF namespace # None
        THEN IF ~overwrite /\ hasattr(cls, namespace[1])
             THEN [status |-> "ValueError", names |-> {namespace[1]}, classes |-> table]
             ELSE [status |-> "ok", names |-> {},
                   classes |-> [table EXCEPT ![cname].members =
                                    setattr(@, EnvMember(namespace[1], spec_name))]]
        ELSE IF ~overwrite /\ overlap # {}
        THEN [status |-> "ValueError", names |-> overlap, classes |-> table]
        ELSE [status |-> "ok", names |-> {},
              classes |-> [table EXCEPT ![cname].members = SetAll(@, to_include)]]

(***************************************************************************)
(* Env.help_info                                                           *)
(***************************************************************************)
\* the characters of the model in code point order
ASCII ==
    <<"+", ",", "-", ".", "/">> \o DIGITS \o <<":">> \o UPPERCASE \o <<"_">> \o LOWERCASE

\* a <= b for Python strings
RECURSIVE StrLeq(_, _)
StrLeq(a, b) ==
    IF a = <<>> THEN TRUE
    ELSE IF b = <<>> THEN FALSE
    ELSE IF Head(a) # Head(b) THEN IndexOf(Head(a), ASCII) < IndexOf(Head(b), ASCII)
    ELSE StrLeq(Tail(a), Tail(b))

\* a stable insertion sort of records by their key field
RECURSIVE SortByKey(_)
SortByKey(pairs) ==
    IF pairs = <<>> THEN <<>>
    ELSE LET rest == SortByKey(Tail(pairs))
             h == Head(pairs)
             before == {i \in DOMAIN rest : ~StrLeq(h.key, rest[i].key)}
             n == IF before = {} THEN 0 ELSE CHOOSE i \in before : \A j \in before : j <= i
         IN  SubSeq(rest, 1, n) \o <<h>> \o SubSeq(rest, n + 1, Len(rest))

\* sorted(items, key=...): keyed pairs each item with its key
sorted(keyed) ==
    LET ordered == SortByKey(keyed)
    IN  [i \in DOMAIN ordered |-> ordered[i].item]

RECURSIVE DigitsOf(_)
DigitsOf(n) == IF n < 10 THEN <<DIGITS[n + 1]>> ELSE Append(DigitsOf(n \div 10), DIGITS[(n % 10) + 1])

\* str(value) of a default: the empty string for NoDefault
str(default) ==
    IF default = NoDefault THEN <<>>
    ELSE CASE default[1].t = "str" -> default[1].s
           [] default[1].t = "int" ->
                IF default[1].n < 0 THEN <<"-">> \o DigitsOf(-default[1].n)
                ELSE DigitsOf(default[1].n)
           [] OTHER -> <<"N","o","n","e">>

\* type.__name__ of the plain classes
TypeName(type) ==
    CASE type.name = "int" -> <<"i","n","t">>
      [] type.name = "str" -> <<"s","t","r">>
      [] type.name = "bool" -> <<"b","o","o","l">>
      [] type.name = "float" -> <<"f","l","o","a","t">>
      [] type.name = "list" -> <<"l","i","s","t">>
      [] type.name = "dict" -> <<"d","i","c","t">>
      [] OTHER -> <<"o","b","j","e","c","t">>

\* the text between two pairs of grave accents; the accent is written ~,
\* the strings of this module cannot hold it
GRAVE == "~"
Backticks(text) == <<GRAVE, GRAVE>> \o text \o <<GRAVE, GRAVE>>

\* key=lambda v: v.name
VariableName(members) ==
    [i \in DOMAIN members |-> [key |-> members[i].var.name, item |-> members[i]]]

\* key=lambda _: _[1].__prefix__
ClassPrefix(pairs) ==
    [i \in DOMAIN pairs |-> [key |-> pairs[i].__prefix__, item |-> pairs[i]]]

\* lines 391-411: the entries of the variables of one class; every variable
\* is declared without help text, so the help message is empty
add_entries(full_prefix, config) ==
    LET variables == sorted(VariableName(SelectSeq(values(config), LAMBDA e : e.kind = "var")))
    IN  [i \in DOMAIN variables |->
            <<Backticks(full_prefix \o _normalized(variables[i].var.name)),
              IF variables[i].var.help_type # None THEN variables[i].var.help_type[1]
              ELSE Backticks(TypeName(variables[i].var.type)),
              IF variables[i].var.help_default # None THEN variables[i].var.help_default[1]
              ELSE str(variables[i].var.default),
              <<>> >>]

\* lines 417-419
NewPrefix(full_prefix, config) ==
    LET new_prefix == full_prefix \o _normalized(config.__prefix__)
    IN  IF ~endswith(new_prefix, "_") THEN new_prefix \o <<"_">> ELSE new_prefix

\* lines 425-432
Subconfigs(table, new_prefix, config) ==
    LET nested == SelectSeq(config.members, LAMBDA e : e.kind = "env" /\ e.name # "parent")
    IN  sorted(ClassPrefix([i \in DOMAIN nested |->
                    [full_prefix |-> new_prefix, cls |-> nested[i].cls,
                     __prefix__ |-> table[nested[i].cls].__prefix__]]))

\* lines 415-434: the loop over configs; pop() takes the last pair and the
\* nested classes are inserted at the front
RECURSIVE HelpLoop(_, _, _, _)
HelpLoop(table, configs, entries, recursive) ==
    IF configs = <<>> THEN entries
    ELSE LET top == configs[Len(configs)]
             config == table[top.cls]
             new_prefix == NewPrefix(top.full_prefix, config)
             added == entries \o add_entries(new_prefix, config)
         IN  IF ~recursive THEN added
             ELSE HelpLoop(table,
                           Subconfigs(table, new_prefix, config)
                                \o SubSeq(configs, 1, Len(configs) - 1),
                           added, recursive)

\* cls.help_info(recursive)
help_info(table, cname, recursive) ==
    HelpLoop(table,
             <<[full_prefix |-> <<>>, cls |-> cname, __prefix__ |-> table[cname].__prefix__]>>,
             <<>>, recursive)

(***************************************************************************)
(* Inputs of the retrieval specification.                                  *)
(***************************************************************************)
RECURSIVE SeqsUpTo(_, _)
SeqsUpTo(S, n) ==
    IF n = 0 THEN {<<>>}
    ELSE SeqsUpTo(S, n - 1)
            \cup {Append(q, x) : q \in {r \in SeqsUpTo(S, n - 1) : Len(r) = n - 1}, x \in S}

\* every mapping from a subset of the keys to the raw strings given per key
SourcesOver(keys, raws) ==
    {m \in UNION {[K -> UNION {raws[k] : k \in keys}] : K \in SUBSET keys} :
        \A k \in DOMAIN m : m[k] \in raws[k]}

s_new == <<"n","e","w">>
s_old == <<"o","l","d">>
s_leg == <<"l","e","g",".">>
s_u == <<"u">>
s_c == <<"c">>
k_NEW == <<"N","E","W">>
k_OLD == <<"O","L","D">>
k_LEG == <<"L","E","G">>
k_U == <<"U">>
k_C == <<"C">>
p_X == <<"X","_">>
r_42 == <<"4","2">>
r_x == <<"x">>

Deprecations ==
    {[name |-> s_old, deprecated_when |-> Some(<<"1">>), removed_when |-> Some(<<"2">>)],
     [name |-> s_leg, deprecated_when |-> None, removed_when |-> None]}

Declared(S) == {d[1] : d \in {e \in S : e # None}}

\* variables with deprecated aliases, defaults, parsers and validators
AliasVars ==
    Declared({EnvVariable(Plain(t), s_new, parser, validator, "none", default, deps) :
        t \in {"str", "int"},
        parser \in {"none", "len"},
        validator \in {"none", "accept", "reject_int"},
        default \in {NoDefault, Some(StrV(<<"d">>)), Some(IntV(5))},
        deps \in SeqsUpTo(Deprecations, MaxDeprecations)})

UnionTypes ==
    {UnionOf(<<"int", "str">>), UnionOf(<<"str", "int">>), UnionOf(<<"int", "NoneType">>),
     UnionOf(<<"NoneType", "int">>), UnionOf(<<"int", "float">>), UnionOf(<<"float", "int">>),
     UnionOf(<<"int", "bool">>), UnionOf(<<"NoneType", "bool">>)}

\* scalar and union-typed variables
ScalarVars ==
    Declared({EnvVariable(type, s_u, parser, "none", "none", default, <<>>) :
        type \in UnionTypes \cup {Plain("int"), Plain("float"), Plain("str")},
        parser \in {"none", "upper"},
        default \in {NoDefault, Some(IntV(0)), Some(NoneV)}})

\* boolean, collection and mapping variables
CollectionVars ==
    Declared({EnvVariable(Plain(t), s_c, "none", "none", map, NoDefault, <<>>) :
        t \in {"bool", "list", "tuple", "set", "dict"},
        map \in {"none", "int", "upper", "swap", "lower_key", "int_value"}})

Descriptors == AliasVars \cup ScalarVars \cup CollectionVars

ItemPool ==
    {<<"a",":","1">>, <<"a",":","2">>, <<"b",":","2">>, <<"A",":","x">>, <<"a">>}

AliasSources ==
    SourcesOver({k_NEW, k_OLD, k_LEG},
                [k \in {k_NEW, k_OLD, k_LEG} |->
                    CASE k = k_NEW -> {r_42, r_x, <<>>}
                      [] k = k_OLD -> {r_42, <<>>}
                      [] OTHER -> {<<"7">>}])
        \cup SourcesOver({p_X \o k_NEW, p_X \o k_OLD},
                [k \in {p_X \o k_NEW, p_X \o k_OLD} |-> {r_42}])

ScalarSources ==
    SourcesOver({k_U}, [k \in {k_U} |-> {r_42, r_x, <<>>, <<"4",".","2">>, <<"-","7">>}])

CollectionSources ==
    SourcesOver({k_C},
        [k \in {k_C} |->
            {join(<<",">>, items) : items \in SeqsUpTo(ItemPool, MaxItems)}
                \cup {<<"Y","E","S">>, <<"o","n">>, <<"n","o">>}])

\* the sources a descriptor is retrieved from
SourcesFor(var) ==
    CASE var.name = s_new -> AliasSources
      [] var.name = s_u -> ScalarSources
      [] OTHER -> CollectionSources

Prefixes == {<<>>, p_X}

Config == EnvClass(<<>>, None, <<>>)

(***************************************************************************)
(* The retrieval specification: a descriptor is declared, and is then      *)
(* retrieved or called on an Env with the source of the state.             *)
(***************************************************************************)
InitRetrieve ==
    /\ classes = [Config |-> Config]
    /\ \E var \in Descriptors, prefix \in Prefixes :
          /\ op = [name |-> "declared", var |-> var, prefix |-> prefix]
          /\ source \in SourcesFor(var)
    /\ out = [status |-> "none"]

Retrieve ==
    \E r \in {_retrieve(op.var, EnvOf(classes.Config, source), op.prefix)} :
        /\ op' = [op EXCEPT !.name = "_retrieve"]
        /\ out' = r
        /\ source' = r.source
        /\ UNCHANGED classes

Call ==
    \E r \in {__call__(op.var, EnvOf(classes.Config, source), op.prefix)} :
        /\ op' = [op EXCEPT !.name = "__call__"]
        /\ out' = r
        /\ source' = r.retrieved.source
        /\ UNCHANGED classes

NextRetrieve == Retrieve \/ Call

SpecRetrieve == InitRetrieve /\ [][NextRetrieve]_vars

(***************************************************************************)
(* Properties of retrieval.                                                *)
(***************************************************************************)
Retrieved == IF op.name = "__call__" THEN out.retrieved ELSE out
HasRetrieved == op.name \in {"_retrieve", "__call__"}
OwnKey == op.prefix \o _normalized(op.var.name)
AliasKey(i) == op.prefix \o _normalized(op.var.deprecations[i].name)
AliasesPresent(src) == {i \in DOMAIN op.var.deprecations : AliasKey(i) \in DOMAIN src}
FirstOf(S) == CHOOSE i \in S : \A j \in S : i <= j
RetrievalEnv == EnvOf(classes.Config, source)

\* C2: with a deprecation list, the own key wins without a warning; otherwise
\* the first alias present in list order gives the raw value, with exactly one
\* warning naming that alias and the own key, and no later alias is looked up.
C2_DeprecatedAliases ==
    (HasRetrieved /\ op.var.deprecations # <<>>) =>
        LET r == Retrieved
            present == AliasesPresent(source)
        IN  IF OwnKey \in DOMAIN source
            THEN /\ r.raw = Some(source[OwnKey])
                 /\ r.warnings = <<>>
                 /\ r.lookups = <<OwnKey>>
                 /\ r.status = Coerce(op.var, source[OwnKey], RetrievalEnv).status
                 /\ r.value = Coerce(op.var, source[OwnKey], RetrievalEnv).value
            ELSE IF present # {}
            THEN LET f == FirstOf(present)
                 IN  /\ r.raw = Some(source[AliasKey(f)])
                     /\ Len(r.warnings) = 1
                     /\ r.warnings[1].deprecated = AliasKey(f)
                     /\ r.warnings[1].use = OwnKey
                     /\ r.lookups = <<OwnKey>> \o [i \in 1..f |-> AliasKey(i)]
                     /\ r.status = Coerce(op.var, source[AliasKey(f)], RetrievalEnv).status
                     /\ r.value = Coerce(op.var, source[AliasKey(f)], RetrievalEnv).value
            ELSE r.raw = None /\ r.warnings = <<>>

\* two aliases are present next to an absent own key, and the first was used
C2_Witness ==
    /\ op.name = "_retrieve"
    /\ Len(op.var.deprecations) = 2
    /\ OwnKey \notin DOMAIN source
    /\ AliasesPresent(source) = {1, 2}
    /\ AliasKey(1) # AliasKey(2)
    /\ source[AliasKey(1)] # source[AliasKey(2)]
    /\ out.raw = Some(source[AliasKey(1)])
    /\ Len(out.warnings) = 1

\* C3: absent from the source (own key and every alias): the default when
\* there is one, else a KeyError naming the full key, and the source is left
\* as it was; present but not coercible: an error, never the default.
C3_DefaultsOnlyWhenAbsent ==
    [][HasRetrieved' =>
        LET r == Retrieved'
            var == op'.var
        IN  IF OwnKey \notin DOMAIN source /\ AliasesPresent(source) = {}
            THEN /\ source' = source
                 /\ r.raw = None
                 /\ var.default # NoDefault => (r.status = "ok" /\ r.value = var.default[1])
                 /\ var.default = NoDefault => (r.status = "KeyError" /\ r.key = OwnKey)
            ELSE LET raw == IF OwnKey \in DOMAIN source THEN source[OwnKey]
                            ELSE source[AliasKey(FirstOf(AliasesPresent(source)))]
                     c == Coerce(var, raw, RetrievalEnv)
                 IN  /\ r.status # "KeyError"
                     /\ c.status # "ok" =>
                            (r.status = c.status /\ r.status # "ok" /\ r.value = NoneV)
                     /\ (var.parser = "none" /\ var.type = Plain("int") /\ int(raw).status # "ok")
                            => r.status = "ValueError"
                     /\ (var.parser # "none" /\ ApplyParser(var.parser, raw).status = "ok"
                            /\ ~_check_type(ApplyParser(var.parser, raw).value, var.type))
                            => r.status = "TypeError"]_vars

\* a raw value that is present fails coercion although a default is declared
C3_Witness ==
    /\ op.name = "_retrieve"
    /\ op.var.default # NoDefault
    /\ OwnKey \in DOMAIN source
    /\ out.status = "ValueError"

UnionCase ==
    /\ HasRetrieved
    /\ op.var.type.origin = "Union"
    /\ op.var.parser = "none"
    /\ Retrieved.raw # None

\* C4 as stated: the result is that of the first alternative, in declared
\* order, whose construction from the raw string does not fail.
C4_FirstConstructibleAlternative ==
    UnionCase =>
        LET args == op.var.type.args
            raw == Retrieved.raw[1]
            good == {i \in DOMAIN args : CallType(args[i], raw).status = "ok"}
        IN  good # {} =>
                /\ Retrieved.status = "ok"
                /\ Retrieved.value = CallType(args[FirstOf(good)], raw).value

\* C4 amended: a raw string that already is an instance of an alternative
\* (str among the alternatives) is returned as it is; otherwise the first
\* alternative, in declared order, whose construction does not raise TypeError
\* decides: its value is returned or its error propagates; TypeError when
\* there is none.  (int, str) with "42" is the string "42".
C4_UnionResolution ==
    UnionCase =>
        LET args == op.var.type.args
            raw == Retrieved.raw[1]
            deciding == {i \in DOMAIN args : CallType(args[i], raw).status # "TypeError"}
        IN  /\ IF \E i \in DOMAIN args : args[i] \in {"str", "object"}
               THEN Retrieved.status = "ok" /\ Retrieved.value = StrV(raw)
               ELSE IF deciding # {}
               THEN /\ Retrieved.status = CallType(args[FirstOf(deciding)], raw).status
                    /\ Retrieved.value = CallType(args[FirstOf(deciding)], raw).value
               ELSE Retrieved.status = "TypeError"
            /\ (args = <<"int", "str">> /\ raw = r_42) => Retrieved.value = StrV(r_42)

\* Union[int, str] was retrieved from the raw string "42"
C4_Witness ==
    /\ op.name = "_retrieve"
    /\ op.var.type = UnionOf(<<"int", "str">>)
    /\ op.var.parser = "none"
    /\ out.raw = Some(r_42)
    /\ out.status = "ok"

\* the mapping a sequence of pairs denotes: the last pair of a key decides
AsMapping(pairs) ==
    [k \in {pairs[i][1] : i \in DOMAIN pairs} |->
        pairs[CHOOSE i \in DOMAIN pairs :
                /\ pairs[i][1] = k
                /\ \A j \in DOMAIN pairs : pairs[j][1] = k => j <= i][2]]

\* the elements of a set of indices, in increasing order
RECURSIVE Ascending(_)
Ascending(S) == IF S = {} THEN <<>> ELSE <<FirstOf(S)>> \o Ascending(S \ {FirstOf(S)})

DictCase ==
    /\ HasRetrieved
    /\ op.var.type = Plain("dict")
    /\ op.var.parser = "none"
    /\ Retrieved.raw # None
    /\ \A i \in DOMAIN SplitItems(Retrieved.raw[1], RetrievalEnv) :
            Len(SplitItems(Retrieved.raw[1], RetrievalEnv)[i]) = 2

\* the (key, value) pairs of the items of the raw string
RawPairs ==
    LET kvs == SplitItems(Retrieved.raw[1], RetrievalEnv)
    IN  [i \in DOMAIN kvs |-> <<StrV(kvs[i][1]), StrV(kvs[i][2])>>]

\* C8 as stated: the map is applied to each pair of the raw string in order
\* and the mapping is built from the resulting pairs.
C8_MapEveryPair ==
    DictCase =>
        LET mapped == IF op.var.map = "none" THEN Ok(RawPairs)
                      ELSE MapPairs(op.var.map, RawPairs)
        IN  /\ Retrieved.status = mapped.status
            /\ mapped.status = "ok" =>
                    AsMapping(Retrieved.value.pairs) = AsMapping(mapped.value)

\* C8 amended: the mapping is built from the pairs first (a later duplicate
\* key overwrites the value and keeps the key's first position); the map is
\* then applied to each entry of that mapping, and the result is built from
\* the returned pairs, later duplicates again overwriting earlier ones.
C8_DictThenMap ==
    DictCase =>
        LET pairs == RawPairs
            firsts == {i \in DOMAIN pairs : \A j \in 1..(i - 1) : pairs[j][1] # pairs[i][1]}
            order == Ascending(firsts)
            entries == [n \in DOMAIN order |->
                            <<pairs[order[n]][1], AsMapping(pairs)[pairs[order[n]][1]]>>]
            results == [n \in DOMAIN entries |->
                            IF op.var.map = "none" THEN Ok(entries[n])
                            ELSE MapPair(op.var.map, entries[n])]
            failed == {n \in DOMAIN results : results[n].status # "ok"}
        IN  /\ IF failed # {}
               THEN Retrieved.status = results[FirstOf(failed)].status
               ELSE /\ Retrieved.status = "ok"
                    /\ Retrieved.value.t = "dict"
                    /\ AsMapping(Retrieved.value.pairs)
                            = AsMapping([n \in DOMAIN results |-> results[n].value])
            /\ (op.var.map = "none" /\ Retrieved.raw[1] = <<"a",":","1",",","b",":","2">>)
                    => AsMapping(Retrieved.value.pairs)
                            = (StrV(<<"a">>) :> StrV(<<"1">>) @@ StrV(<<"b">>) :> StrV(<<"2">>))
            /\ (op.var.map = "none" /\ Retrieved.raw[1] = <<"a",":","1",",","a",":","2">>)
                    => AsMapping(Retrieved.value.pairs) = (StrV(<<"a">>) :> StrV(<<"2">>))

\* a mapping with a duplicate key was retrieved through a map
C8_Witness ==
    /\ op.name = "_retrieve"
    /\ op.var.type = Plain("dict")
    /\ op.var.map = "swap"
    /\ out.raw = Some(<<"a",":","1",",","a",":","2">>)
    /\ out.status = "ok"
    /\ out.value = DictV(<< <<StrV(<<"2">>), StrV(<<"a">>)>> >>)

(***************************************************************************)
(* The construction specification: a root schema Config is declared, with  *)
(* nested schemas Sub and Leaf, and is constructed from several sources.   *)
(***************************************************************************)
s_a == <<"a">>
s_b == <<"b">>
s_h == <<"h">>

\* the members a schema may declare: name -> the declarations under it
MemberPool ==
    {VarMember("a", v) : v \in Declared({
        EnvVariable(Plain("int"), s_a, "none", "none", "none", NoDefault, <<>>),
        EnvVariable(Plain("int"), s_a, "none", "none", "none", Some(IntV(5)), <<>>),
        EnvVariable(Plain("int"), s_a, "none", "reject_int", "none", Some(IntV(5)), <<>>)})}
    \cup {VarMember("b", v) : v \in Declared({
        EnvVariable(Plain("str"), s_b, "none", "none", "none", NoDefault, <<>>),
        EnvVariable(Plain("str"), s_b, "none", "reject_int", "none", Some(StrV(<<"d">>)), <<>>)})}
    \cup {DerMember("d", DerivedVariable(Plain("int"), [fn |-> "getattr", attr |-> "a"])),
          DerMember("d", DerivedVariable(Plain("object"), [fn |-> "getattr", attr |-> "x"])),
          DerMember("e", DerivedVariable(Plain("int"), [fn |-> "getattr", attr |-> "d"])),
          EnvMember("s", "Sub")}

\* the lists of at most n members with distinct names
MemberLists(n) ==
    {l \in SeqsUpTo(MemberPool, n) : \A i, j \in DOMAIN l : l[i].name = l[j].name => i = j}

HostVar == Declared({EnvVariable(Plain("str"), s_h, "none", "none", "none", Some(StrV(s_h)), <<>>)})

SubClasses ==
    {EnvClass(<<"s","u","b">>, item, <<>>) : item \in {None, Some("x"), Some("a")}}
    \cup {EnvClass(<<"s","u","b">>, item, <<VarMember("h", v)>>) :
            item \in {None, Some("x")}, v \in HostVar}
    \cup {EnvClass(<<"s","u","b">>, Some("x"), <<EnvMember("l", "Leaf")>>)}

LeafClass == EnvClass(<<>>, Some("x"), <<>>)

k_APP_DB_HOST == <<"A","P","P","_","D","B","_","H","O","S","T">>

ConstructSources ==
    {<<>>,
     (<<"A">> :> <<"7">> @@ <<"B">> :> <<"v">> @@ k_APP_DB_HOST :> <<"p","g">>),
     (<<"A">> :> r_x @@ <<"B">> :> <<"v">>)}

InitConstruct ==
    /\ \E members \in MemberLists(MaxMembers), sub \in SubClasses :
          classes = [Config |-> EnvClass(<<>>, None, members), Sub |-> sub, Leaf |-> LeafClass]
    /\ source = <<>>
    /\ op = [name |-> "declared"]
    /\ out = [status |-> "none"]

\* Config(source)
Construct ==
    \E src \in ConstructSources :
        \E r \in {__init__(classes, "Config", src, None, <<>>)} :
            /\ classes' = r.classes
            /\ source' = src
            /\ op' = [name |-> "Config"]
            /\ out' = [status |-> r.status, self |-> r.self, log |-> r.log]

NextConstruct == Construct

SpecConstruct == InitConstruct /\ [][NextConstruct]_vars

(***************************************************************************)
(* Properties of construction.                                             *)
(***************************************************************************)
Constructed == op.name = "Config"
Range(f) == {f[i] : i \in DOMAIN f}
Events(kind) == {i \in DOMAIN out.log : out.log[i].ev = kind}

\* the assignments of the first pass to instance obj that precede event k
FirstPassBefore(obj, k) ==
    {j \in Events("setattr") :
        j < k /\ out.log[j].obj = obj /\ out.log[j].kind \in {"var", "env"}}

\* the derived members of a list of members, in declaration order
DerivedOf(items) == SelectSeq(items, LAMBDA e : e.kind = "der")
ResolvedFirst(items) == SelectSeq(items, LAMBDA e : e.kind \in {"var", "env"})

\* C1: every variable and nested schema is resolved and assigned before any
\* derivation is called; the derived variables are resolved in declaration
\* order, each seeing the attributes of the first pass and of the derived
\* variables declared before it.
C1_TwoPasses ==
    Constructed =>
        \A i \in Events("__init__") :
            LET obj == out.log[i].obj
                items == out.log[i].items
                ders == DerivedOf(items)
                calls == Ascending({k \in Events("derive") : out.log[k].obj = obj})
            IN  /\ Len(calls) <= Len(ders)
                /\ (out.status = "ok" => Len(calls) = Len(ders))
                /\ \A n \in DOMAIN calls :
                      LET k == calls[n]
                      IN  /\ out.log[k].name = ders[n].name
                          /\ Cardinality(FirstPassBefore(obj, k)) = Len(ResolvedFirst(items))
                          /\ FirstPassBefore(obj, Len(out.log) + 1) = FirstPassBefore(obj, k)
                          /\ out.log[k].seen =
                                {out.log[j].name : j \in FirstPassBefore(obj, k)}
                                    \cup {ders[m].name : m \in 1..(n - 1)}

\* a derived variable declared before a variable saw it, and a later derived
\* variable saw both
C1_Witness ==
    /\ Constructed
    /\ out.status = "ok"
    /\ out.log[1].items # <<>>
    /\ out.log[1].items[1].kind = "der"
    /\ \E k \in Events("derive") :
          /\ out.log[k].name = "e"
          /\ out.log[k].seen = {"a", "d"}
    /\ \E k \in Events("derive") :
          /\ out.log[k].name = "d"
          /\ out.log[k].seen = {"a"}

\* the classes that a construction of Config instantiates
Nested(table, cs) ==
    cs \cup UNION {{table[c].members[i].cls :
                        i \in {j \in DOMAIN table[c].members : table[c].members[j].kind = "env"}} :
                   c \in cs}
ReachableClasses(table) == Nested(table, Nested(table, Nested(table, {"Config"})))

\* the nested members of class c that are declared under another name than
\* their item name
Pending(table, c) ==
    {m \in {table[c].members[i] : i \in DOMAIN table[c].members} :
        /\ m.kind = "env"
        /\ table[m.cls].__item__ # None
        /\ table[m.cls].__item__[1] # m.name}
Settled(table) == \A c \in ReachableClasses(table) : Pending(table, c) = {}

RECURSIVE Instances(_)
Instances(self) ==
    {self} \cup UNION {Instances(self.attrs[i].value) :
                        i \in {j \in DOMAIN self.attrs : self.attrs[j].value.t = "Env"}}

\* after a completed construction, member m of class c is declared under its
\* item name only, and every instance of c exposes the child under that name
Renamed(c, m) ==
    LET item == classes[m.cls].__item__[1]
    IN  /\ EnvMember(item, m.cls) \in {classes'[c].members[i] : i \in DOMAIN classes'[c].members}
        /\ m.name \notin Names(classes'[c].members)
        /\ \A inst \in Instances(out'.self) :
              inst.cls = c =>
                /\ item \in Names(inst.attrs)
                /\ Entry(inst.attrs, item).value.t = "Env"
                /\ Entry(inst.attrs, item).value.cls = m.cls

\* no other member of class c is declared under, or renamed to, the item
\* name of member m
NoCollision(c, m) ==
    LET item == classes[m.cls].__item__[1]
    IN  /\ item \notin Names(classes[c].members)
        /\ \A n \in Pending(classes, c) : classes[n.cls].__item__[1] = item => n = m

\* C9 as stated: a completed construction renames every nested member that
\* declares another item name, on the schema type and on the instance, and a
\* construction of a schema with nothing left to rename leaves the declared
\* members as they are.  (A construction is one that completes: an aborted
\* one constructs no object.)
C9_RenameOnFirstConstruction ==
    [][Constructed' =>
        /\ out'.status = "ok" =>
              /\ \A c \in ReachableClasses(classes) : \A m \in Pending(classes, c) : Renamed(c, m)
              /\ Settled(classes')
        /\ Settled(classes) => classes' = classes]_vars

\* C9 amended: the same, for the nested members whose item name is not the
\* name of another member of the containing schema.
C9_RenameWithoutCollision ==
    [][Constructed' =>
        /\ out'.status = "ok" =>
              /\ \A c \in ReachableClasses(classes) :
                    \A m \in Pending(classes, c) : NoCollision(c, m) => Renamed(c, m)
              /\ Settled(classes')
        /\ Settled(classes) => classes' = classes]_vars

\* the schema was constructed twice: Sub, declared under s, has been moved to
\* its item name x, and the second construction found nothing to rename
C9_Witness ==
    /\ Constructed
    /\ out.status = "ok"
    /\ classes.Sub.__item__ = Some("x")
    /\ "x" \in Names(classes.Config.members)
    /\ "s" \notin Names(classes.Config.members)
    /\ "x" \in Names(out.self.attrs)
    /\ out.log[1].items = classes.Config.members

\* C10: the validator is called on whatever retrieval returns, the default
\* included; when it fails, the construction fails with the validator's error
\* and the attribute is not assigned.
C10_ValidatorOnDefault ==
    Constructed =>
        \A k \in Events("__call__") :
            LET e == out.log[k]
                r == e.result.retrieved
                assigned == {j \in Events("setattr") : j > k /\ out.log[j] = SetEvent(e.obj, e.name, "var")}
            IN  e.var.validator # "none" =>
                  /\ r.status = "ok" => e.result.validated = <<r.value>>
                  /\ r.status # "ok" => e.result.validated = <<>>
                  /\ (r.raw = None /\ e.var.default # NoDefault)
                        => e.result.validated = <<e.var.default[1]>>
                  /\ (r.status = "ok" /\ ~Accepts(e.var.validator, r.value)) =>
                        /\ out.status = "ValidatorError"
                        /\ k = Len(out.log)
                        /\ assigned = {}
                        /\ (e.obj = <<>> /\ SetEvent(e.obj, e.name, "env") \notin Range(out.log))
                                => e.name \notin Names(out.self.attrs)
                  /\ (r.status = "ok" /\ Accepts(e.var.validator, r.value)) =>
                        /\ k < Len(out.log)
                        /\ out.log[k + 1] = SetEvent(e.obj, e.name, "var")

\* the validator rejected the default of a variable absent from the source
C10_Witness ==
    /\ Constructed
    /\ out.status = "ValidatorError"
    /\ LET e == out.log[Len(out.log)]
       IN  /\ e.ev = "__call__"
           /\ e.result.retrieved.raw = None
           /\ e.result.validated = <<IntV(5)>>
           /\ "a" \notin Names(out.self.attrs)

(***************************************************************************)
(* The prefix specification: a chain of schemas Config, Sub and Leaf with  *)
(* prefixes of every shape; the schema is constructed, and help_info is    *)
(* asked for its entries.                                                  *)
(***************************************************************************)
p_APP == <<"A","P","P">>
p_DB == <<"D","B">>

PrefixPool == {<<>>, p_APP, p_DB, <<"a",".","b">>, <<"_">>}

StrVar(name) ==
    Declared({EnvVariable(Plain("str"), name, "none", "none", "none", Some(StrV(s_h)), <<>>)})

v_HOST == CHOOSE v \in StrVar(<<"H","O","S","T">>) : TRUE
v_port == CHOOSE v \in StrVar(<<"p","o","r","t",".">>) : TRUE
v_foo == CHOOSE v \in StrVar(<<"f","o","o">>) : TRUE

RootMembers ==
    {<<VarMember("foo", v_foo)>>,
     <<VarMember("port", v_port), VarMember("foo", v_foo), EnvMember("db", "Sub")>>,
     <<EnvMember("leaf", "Leaf"), EnvMember("db", "Sub")>>}

SubMembers ==
    {<<VarMember("host", v_HOST)>>,
     <<VarMember("host", v_HOST), EnvMember("leaf", "Leaf")>>}

InitPrefix ==
    /\ \E p1, p2, p3 \in PrefixPool, root \in RootMembers, sub \in SubMembers :
          classes = [Config |-> EnvClass(p1, None, root),
                     Sub |-> EnvClass(p2, None, sub),
                     Leaf |-> EnvClass(p3, None, <<VarMember("port", v_port)>>)]
    /\ source = <<>>
    /\ op = [name |-> "declared"]
    /\ out = [status |-> "none"]

\* Config.help_info(recursive)
HelpInfo ==
    \E recursive \in BOOLEAN :
        /\ op' = [name |-> "help_info", recursive |-> recursive]
        /\ out' = [status |-> "ok", entries |-> help_info(classes, "Config", recursive)]
        /\ UNCHANGED <<classes, source>>

NextPrefix == Construct \/ HelpInfo

SpecPrefix == InitPrefix /\ [][NextPrefix]_vars

(***************************************************************************)
(* Claims about prefixes.                                                  *)
(***************************************************************************)
\* the construction event of the object that contains the object at path
Container(path) ==
    out.log[CHOOSE i \in Events("__init__") :
                out.log[i].obj = SubSeq(path, 1, Len(path) - 1)]

\* the construction event of the object at path
Built(path) == out.log[CHOOSE i \in Events("__init__") : out.log[i].obj = path]

OneSeparator(prefix) ==
    \/ prefix = <<>>
    \/ /\ Len(prefix) >= 2
       /\ prefix[Len(prefix)] = "_"
       /\ prefix[Len(prefix) - 1] # "_"

\* C7: the full prefix of every constructed object is the full prefix of its
\* parent (empty at the root) followed by its own normalized prefix and, when
\* that prefix is not empty, one "_"; it is empty or ends with exactly one
\* "_"; every variable is looked up under the full prefix followed by its
\* normalized name, so that HOST under DB under APP is read from APP_DB_HOST.
C7_FullPrefix ==
    Constructed =>
        /\ \A i \in Events("__init__") :
              LET e == out.log[i]
                  own == _normalized(classes[e.cls].__prefix__)
                  inherited == IF e.obj = <<>> THEN <<>> ELSE Container(e.obj)._full_prefix
              IN  /\ e._full_prefix =
                        IF own = <<>> THEN inherited ELSE inherited \o own \o <<"_">>
                  /\ (e.obj = <<>>) = (e.parent = None)
                  /\ OneSeparator(e._full_prefix)
        /\ \A i \in Events("__call__") :
              LET e == out.log[i]
              IN  /\ e.result.retrieved.key
                        = Built(e.obj)._full_prefix \o _normalized(e.var.name)
                  /\ e.result.retrieved.lookups[1] = e.result.retrieved.key
                  /\ (/\ Built(e.obj).cls = "Sub"
                      /\ classes.Config.__prefix__ = p_APP
                      /\ classes.Sub.__prefix__ = p_DB
                      /\ e.var = v_HOST)
                        => e.result.retrieved.key = k_APP_DB_HOST

\* HOST of the schema DB nested in the schema APP is read from APP_DB_HOST,
\* and a third level with its own prefix is constructed below it
C7_Witness ==
    /\ Constructed
    /\ out.status = "ok"
    /\ classes.Config.__prefix__ = p_APP
    /\ classes.Sub.__prefix__ = p_DB
    /\ k_APP_DB_HOST \in DOMAIN source
    /\ \E i \in Events("__call__") :
          /\ out.log[i].result.retrieved.key = k_APP_DB_HOST
          /\ out.log[i].result.value = StrV(<<"p","g">>)
    /\ \E i \in Events("__init__") :
          /\ Len(out.log[i].obj) = 2
          /\ out.log[i]._full_prefix = <<"A","P","P","_","D","B","_","A","_","B","_">>

\* the keys looked up by the construction of Config from an empty source, of
\* the root object only or of every object
LookupKeys(recursive) ==
    LET built == __init__(classes, "Config", <<>>, None, <<>>)
    IN  {built.log[i].result.retrieved.key :
            i \in {j \in DOMAIN built.log :
                      /\ built.log[j].ev = "__call__"
                      /\ (recursive \/ built.log[j].obj = <<>>)}}

DisplayKeys == {out.entries[i][1] : i \in DOMAIN out.entries}

\* C5: the display keys help_info reports are the keys the construction of
\* the schema looks up, between the quotes: those of the schema itself, and
\* with recursive=True those of the nested schemas too.
C5_HelpKeysAreLookupKeys ==
    op.name = "help_info" =>
        DisplayKeys = {Backticks(k) : k \in LookupKeys(op.recursive)}

(***************************************************************************)
(* The include specification: the members of Other are included in Config. *)
(***************************************************************************)
MaxIncluded == 3

\* the members a schema may hold; n tells the declarations of the two
\* schemas apart
IncludePool(n) ==
    {VarMember("a", v) : v \in Declared({
        EnvVariable(Plain("int"), s_a, "none", "none", "none", Some(IntV(n)), <<>>)})}
    \cup {VarMember("b", v) : v \in Declared({
        EnvVariable(Plain("str"), s_b, "none", "none", "none", Some(StrV(<<DIGITS[n + 1]>>)), <<>>)})}
    \cup {OtherMember("a"),
          DerMember("b", DerivedVariable(Plain("int"), [fn |-> "getattr", attr |-> "a"])),
          EnvMember("s", "Sub")}

IncludeLists(n) ==
    {l \in SeqsUpTo(IncludePool(n), MaxIncluded) :
        \A i, j \in DOMAIN l : l[i].name = l[j].name => i = j}

Namespaces == {None, Some("ns"), Some("a"), Some("keys")}

InitInclude ==
    /\ \E target \in IncludeLists(1), other \in IncludeLists(2) :
          classes = [Config |-> EnvClass(<<>>, None, target),
                     Other |-> EnvClass(<<>>, None, other),
                     Sub |-> EnvClass(<<"s","u","b">>, None, <<>>)]
    /\ source = <<>>
    /\ op = [name |-> "declared"]
    /\ out = [status |-> "none"]

\* Config.include(Other, namespace, overwrite)
Include ==
    \E namespace \in Namespaces, overwrite \in BOOLEAN :
        LET r == include(classes, "Config", "Other", namespace, overwrite)
        IN  /\ classes' = r.classes
            /\ op' = [name |-> "include", namespace |-> namespace, overwrite |-> overwrite]
            /\ out' = [status |-> r.status, names |-> r.names]
            /\ UNCHANGED source

NextInclude == Include

SpecInclude == InitInclude /\ [][NextInclude]_vars

(***************************************************************************)
(* Claims about include.                                                   *)
(***************************************************************************)
\* the declared members of a schema: variables, derived variables and nested
\* schemas
DeclaredMembers(cls) == {e \in Range(cls.members) : e.kind \in {"var", "der", "env"}}

\* the declared member names of Other that are names of Config
Colliding ==
    {e.name : e \in DeclaredMembers(classes.Other)} \cap Names(classes.Config.members)

\* C6: include without a namespace: when overwrite is false and a declared
\* member name of the included schema is already a name of the target, the
\* call fails, the error lists every colliding name and no class is changed;
\* when overwrite is true the call succeeds and every declared member of the
\* included schema is bound in the target to the included descriptor.
C6_IncludeConflict ==
    [][(op'.name = "include" /\ op'.namespace = None) =>
        /\ (~op'.overwrite /\ Colliding # {}) =>
              /\ out'.status = "ValueError"
              /\ out'.names = Colliding
              /\ classes' = classes
        /\ op'.overwrite =>
              /\ out'.status = "ok"
              /\ \A e \in DeclaredMembers(classes.Other) :
                    /\ e.name \in Names(classes'.Config.members)
                    /\ Entry(classes'.Config.members, e.name) = e]_vars

\* two names collide and a third member of the included schema is new: the
\* call has failed and the new member is not in the target
C6_Witness ==
    /\ op.name = "include"
    /\ op.namespace = None
    /\ ~op.overwrite
    /\ out.status = "ValueError"
    /\ out.names = Colliding
    /\ Cardinality(out.names) = 2
    /\ \E e \in DeclaredMembers(classes.Other) : e.name \notin Names(classes.Config.members)

====
